---- MODULE Spec2Model ----
(***************************************************************************)
(* A model of the HTTP content negotiation library (src/index.js).         *)
(*                                                                         *)
(* Representation.                                                         *)
(*  - A header value (a JavaScript string) is the sequence of the pieces   *)
(*    that value.split('/') returns: 'gzip' is <<"gzip">>, 'text/plain' is *)
(*    <<"text", "plain">>.  The empty sequence stands for the JavaScript   *)
(*    value undefined (a missing element of the array split returns); it   *)
(*    is the image of no string.                                           *)
(*  - A properties Map is a function from parameter names to values; the   *)
(*    value of 'q' is a number, every other value a string.                *)
(*  - q values are fixed-point numbers in units of 1/QOne, scores (the     *)
(*    product of two q values) in units of 1/QOne^2.  The q values drawn   *)
(*    below have products that are far more than one ulp apart or exactly  *)
(*    equal, so the order of the IEEE-754 products is the order of the     *)
(*    exact products.                                                      *)
(*  - The text splitHeaderValue, parseValueTuple and typemapParse take    *)
(*    apart is a sequence of characters, each a string of length one; the  *)
(*    values they return are sequences of characters too.                  *)
(*  - Array.prototype.sort is modelled as a stable insertion sort.         *)
(*  - Object references are positions: a negotiation result names its      *)
(*    server and client tuple by the index in the list they come from.     *)
(***************************************************************************)
EXTENDS Integers, Sequences, FiniteSets, TLC

VARIABLES
    clientValues,   \* the caller's array of client ValueTuple objects
    serverValues,   \* the caller's array of server ValueTuple objects
    whitelist,      \* the caller's whitelist argument: a Set, or not given
    clientHeaderMap,\* the caller's Map of header names to client ValueTuple arrays
    serverTypemap,  \* the caller's array of TypeMapEntry objects
    whitelistMap,   \* the caller's Map of header names to whitelist Sets
    str,            \* the caller's string: a header line or the text of a typemap
    op,             \* the function called last ("none" before any call)
    result          \* what the last call returned

\* The arguments of performTypemapNegotiation.
typemapArgs == <<clientHeaderMap, serverTypemap, whitelistMap>>

vars == <<clientValues, serverValues, whitelist, typemapArgs, str, op, result>>

(***************************************************************************)
(* Bounds of the model.                                                    *)
(***************************************************************************)
MaxClient == 2      \* longest client list
MaxServer == 2      \* longest server list
MaxEntries == 2     \* longest typemap

(***************************************************************************)
(* ValueTuple                                                              *)
(***************************************************************************)
QOne == 1000

\* 0.01 and 0.02, the default weights of */* and type/*
FullWildcardQ == 10

SubtypeWildcardQ == 20

EMPTY_MAP == <<>>

Undefined == <<>>

ValueTuple(value, properties) == [value |-> value, properties |-> properties]

q(vt) == IF "q" \in DOMAIN vt.properties THEN vt.properties["q"] ELSE QOne

\* String.prototype.split('/'): element i (1-based) of the returned array,
\* itself a string, or undefined when the array is shorter.
Split(value, i) == IF i <= Len(value) THEN <<value[i]>> ELSE Undefined

Star == <<"*">>

(***************************************************************************)
(* Matchers and comparators                                                *)
(***************************************************************************)
\* Mutant: q is compared like every other parameter.
parameterMatchQCompared(st, ct) ==
    LET sp == st.properties
        cp == ct.properties
    IN  /\ \A spn \in DOMAIN sp : spn \notin DOMAIN cp \/ sp[spn] = cp[spn]
        /\ \A cpn \in DOMAIN cp : cpn \in DOMAIN sp

parameterMatch(st, ct) ==
    LET sp == st.properties
        cp == ct.properties
    IN  /\ \A spn \in DOMAIN sp :
              \/ spn = "q"
              \/ spn \notin DOMAIN cp
              \/ sp[spn] = cp[spn]
        /\ \A cpn \in DOMAIN cp : cpn = "q" \/ cpn \in DOMAIN sp

\* Mutant: the parameters shared with the server are not counted.
parameterCompareQOnly(st, at, bt) == q(bt) - q(at)

\* Mutant: the q values are not compared.
parameterCompareCountOnly(st, at, bt) ==
    LET sp == st.properties
        acnt == Cardinality({k \in DOMAIN at.properties : k # "q" /\ k \in DOMAIN sp})
        bcnt == Cardinality({k \in DOMAIN bt.properties : k # "q" /\ k \in DOMAIN sp})
    IN  bcnt - acnt

parameterCompare(st, at, bt) ==
    LET sp == st.properties
        acnt == Cardinality({k \in DOMAIN at.properties : k # "q" /\ k \in DOMAIN sp})
        bcnt == Cardinality({k \in DOMAIN bt.properties : k # "q" /\ k \in DOMAIN sp})
    IN  IF acnt # bcnt THEN bcnt - acnt ELSE q(bt) - q(at)

\* Mutant: a server '*' matches every client value as well.
wildcardValueMatchSymmetric(st, ct) ==
    IF st.value # ct.value /\ ct.value # Star /\ st.value # Star
    THEN FALSE
    ELSE parameterMatch(st, ct)

wildcardValueMatch(st, ct) ==
    IF st.value # ct.value /\ ct.value # Star
    THEN FALSE
    ELSE parameterMatch(st, ct)

\* Mutant: a wildcard is not ranked behind a literal value.
wildcardValueCompareNoPrecedence(st, at, bt) == parameterCompare(st, at, bt)

wildcardValueCompare(st, at, bt) ==
    IF at.value = Star \/ bt.value = Star
    THEN IF at.value = Star /\ bt.value = Star
         THEN parameterCompare(st, at, bt)
         ELSE IF at.value = Star THEN 1 ELSE -1
    ELSE parameterCompare(st, at, bt)

\* Mutant: the subtype components are matched without the parameters.
mediaRangeValueMatchNoParameters(st, ct) ==
    /\ wildcardValueMatch(ValueTuple(Split(st.value, 1), EMPTY_MAP),
                          ValueTuple(Split(ct.value, 1), EMPTY_MAP))
    /\ wildcardValueMatch(ValueTuple(Split(st.value, 2), EMPTY_MAP),
                          ValueTuple(Split(ct.value, 2), EMPTY_MAP))

mediaRangeValueMatch(st, ct) ==
    /\ wildcardValueMatch(ValueTuple(Split(st.value, 1), EMPTY_MAP),
                          ValueTuple(Split(ct.value, 1), EMPTY_MAP))
    /\ wildcardValueMatch(ValueTuple(Split(st.value, 2), st.properties),
                          ValueTuple(Split(ct.value, 2), ct.properties))

\* Mutant: the subtype components are compared before the type components.
mediaRangeValueCompareSubtypeFirst(st, at, bt) ==
    LET c == wildcardValueCompare(st,
                                  ValueTuple(Split(at.value, 2), at.properties),
                                  ValueTuple(Split(bt.value, 2), bt.properties))
    IN  IF c # 0
        THEN c
        ELSE wildcardValueCompare(ValueTuple(st.value, EMPTY_MAP),
                                  ValueTuple(Split(at.value, 1), EMPTY_MAP),
                                  ValueTuple(Split(bt.value, 1), EMPTY_MAP))

mediaRangeValueCompare(st, at, bt) ==
    LET c == wildcardValueCompare(ValueTuple(st.value, EMPTY_MAP),
                                  ValueTuple(Split(at.value, 1), EMPTY_MAP),
                                  ValueTuple(Split(bt.value, 1), EMPTY_MAP))
    IN  IF c # 0
        THEN c
        ELSE wildcardValueCompare(st,
                                  ValueTuple(Split(at.value, 2), at.properties),
                                  ValueTuple(Split(bt.value, 2), bt.properties))

\* The closure transform of performTypeNegotiation.  In the source it stores
\* q in the properties Map of the tuple it is given and returns a tuple that
\* shares that Map: the returned tuple is also the new content of the
\* caller's tuple.
transform(vt) ==
    IF "q" \in DOMAIN vt.properties
    THEN vt
    ELSE IF Split(vt.value, 1) # Star /\ Split(vt.value, 2) # Star
         THEN vt
         ELSE ValueTuple(vt.value,
                         [k \in DOMAIN vt.properties \cup {"q"} |->
                             IF k = "q"
                             THEN (IF Split(vt.value, 1) = Star
                                   THEN FullWildcardQ
                                   ELSE SubtypeWildcardQ)
                             ELSE vt.properties[k]])

\* Matchers and comparators are passed by name.
matcher(name, st, ct) ==
    IF name = "wildcardValueMatch"
    THEN wildcardValueMatch(st, ct)
    ELSE mediaRangeValueMatch(st, ct)

\* "transformCompare" is the closure comparator of performTypeNegotiation.
comparator(name, st, at, bt) ==
    IF name = "wildcardValueCompare"
    THEN wildcardValueCompare(st, at, bt)
    ELSE IF name = "mediaRangeValueCompare"
         THEN mediaRangeValueCompare(st, at, bt)
         ELSE mediaRangeValueCompare(st, transform(at), transform(bt))

(***************************************************************************)
(* performNegotiation                                                      *)
(***************************************************************************)
Range(f) == {f[i] : i \in DOMAIN f}

\* One step of Array.prototype.sort on the matching client values: x is
\* inserted into the sorted prefix after the last element that the
\* comparator does not place behind it.
RECURSIVE InsertClient(_, _, _, _, _)
InsertClient(sorted, x, cmp, sv, cvs) ==
    IF sorted = <<>>
    THEN <<x>>
    ELSE LET last == sorted[Len(sorted)]
         IN  IF comparator(cmp, sv, cvs[last], cvs[x]) > 0
             THEN Append(InsertClient(SubSeq(sorted, 1, Len(sorted) - 1),
                                      x, cmp, sv, cvs), last)
             ELSE Append(sorted, x)

RECURSIVE SortClients(_, _, _, _, _)
SortClients(matchingCv, n, cmp, sv, cvs) ==
    IF n = 0
    THEN <<>>
    ELSE InsertClient(SortClients(matchingCv, n - 1, cmp, sv, cvs),
                      matchingCv[n], cmp, sv, cvs)

\* What the comparator calls of one sort leave in the client tuples.  A sort
\* of two or more elements passes each of them to the comparator at least
\* once, a sort of fewer elements never calls it.  Only the closure
\* comparator of performTypeNegotiation writes (through transform), and what
\* it writes depends on the tuple alone, so every comparison of the sort
\* sees the tuples as they are after the sort.
comparatorEffect(cmp, cvs, matchingCv) ==
    IF cmp = "transformCompare" /\ Len(matchingCv) >= 2
    THEN [j \in DOMAIN cvs |->
             IF j \in Range(matchingCv) THEN transform(cvs[j]) ELSE cvs[j]]
    ELSE cvs

\* The indices of the client values that match sv, in list order.
RECURSIVE filterMatching(_, _, _, _)
filterMatching(cvs, n, mat, sv) ==
    IF n = 0
    THEN <<>>
    ELSE LET rest == filterMatching(cvs, n - 1, mat, sv)
         IN  IF matcher(mat, sv, cvs[n]) THEN Append(rest, n) ELSE rest

\* const score = cv.q * sv.q
score(cv, sv) == q(cv) * q(sv)

\* Mutant: no score is rejected.
rejectedNever(sc) == FALSE

\* Mutant: a score of zero is kept.
rejectedOnlyNegative(sc) == sc < 0

\* if (score <= 0) return
rejected(sc) == sc <= 0

\* serverValues.forEach over the first n server values: the client tuples as
\* the comparator left them, and the scores pushed so far.
RECURSIVE forEachServer(_, _, _, _, _)
forEachServer(cvs, svs, n, mat, cmp) ==
    IF n = 0
    THEN [clients |-> cvs, scores |-> <<>>]
    ELSE LET before == forEachServer(cvs, svs, n - 1, mat, cmp)
             sv == svs[n]
             matchingCv == filterMatching(before.clients, Len(cvs), mat, sv)
         IN  IF Len(matchingCv) = 0
             THEN before
             ELSE LET after == comparatorEffect(cmp, before.clients, matchingCv)
                      cv == SortClients(matchingCv, Len(matchingCv),
                                        cmp, sv, after)[1]
                      sc == score(after[cv], sv)
                  IN  IF rejected(sc)
                      THEN [clients |-> after, scores |-> before.scores]
                      ELSE [clients |-> after,
                            scores |-> Append(before.scores,
                                [server |-> n, client |-> cv, score |-> sc])]

\* Mutant: ascending order.
scoreOrderAscending(a, b) == a.score - b.score

\* (a, b) => b.score - a.score
scoreOrder(a, b) == b.score - a.score

RECURSIVE InsertScore(_, _)
InsertScore(sorted, x) ==
    IF sorted = <<>>
    THEN <<x>>
    ELSE LET last == sorted[Len(sorted)]
         IN  IF scoreOrder(last, x) > 0
             THEN Append(InsertScore(SubSeq(sorted, 1, Len(sorted) - 1), x), last)
             ELSE Append(sorted, x)

RECURSIVE SortScores(_, _)
SortScores(scores, n) ==
    IF n = 0 THEN <<>> ELSE InsertScore(SortScores(scores, n - 1), scores[n])

performNegotiation(cvs, svs, mat, cmp) ==
    LET scores == forEachServer(cvs, svs, Len(svs), mat, cmp).scores
    IN  SortScores(scores, Len(scores))

\* The client tuples after performNegotiation returned.
clientsAfterNegotiation(cvs, svs, mat, cmp) ==
    forEachServer(cvs, svs, Len(svs), mat, cmp).clients

(***************************************************************************)
(* performEncodingNegotiation                                              *)
(***************************************************************************)
Null == 0

\* The optional whitelist argument: given is FALSE when the caller passes none.
NoWhitelist == [given |-> FALSE, values |-> {}]

Whitelist(S) == [given |-> TRUE, values |-> S]

Identity == <<"identity">>

IDENTITY == ValueTuple(Identity, [q |-> QOne])

\* Mutant: only a literal identity entry counts.
hasIdentityLiteralOnly(cvs) ==
    \E i \in DOMAIN cvs :
        cvs[i].value = Identity /\ parameterMatch(IDENTITY, cvs[i])

hasIdentity(cvs) == \E i \in DOMAIN cvs : wildcardValueMatch(IDENTITY, cvs[i])

\* Mutant: the whitelist is not applied to the server's values.
whitelistedIgnored(svs, n, wl) == SubSeq(svs, 1, n)

\* serverValues.filter(...): the client list used when the caller's is empty.
RECURSIVE whitelisted(_, _, _)
whitelisted(svs, n, wl) ==
    IF n = 0
    THEN <<>>
    ELSE LET rest == whitelisted(svs, n - 1, wl)
             v == svs[n]
         IN  IF \/ ~wl.given
                \/ v.value = Identity
                \/ v.value \in wl.values
             THEN Append(rest, v)
             ELSE rest

\* Mutant: the whitelist filter admits only identity when no whitelist is given.
encodingClientValuesNoDefault(cvs, svs, wl) ==
    IF Len(cvs) = 0
    THEN whitelisted(svs, Len(svs), Whitelist(wl.values))
    ELSE cvs

\* Mutant: the whitelist is applied to the client's values as well.
encodingClientValuesFiltered(cvs, svs, wl) ==
    LET Allowed(v) == v.value = Identity \/ v.value \in wl.values
    IN  IF Len(cvs) = 0
        THEN whitelisted(svs, Len(svs), wl)
        ELSE IF wl.given THEN SelectSeq(cvs, Allowed) ELSE cvs

\* The list the first negotiation pass runs on.
encodingClientValues(cvs, svs, wl) ==
    IF Len(cvs) = 0 THEN whitelisted(svs, Len(svs), wl) ELSE cvs

\* Mutant: the implicit identity is folded into the first negotiation pass.
performEncodingNegotiationPrepend(cvs, svs, wl) ==
    LET withIdentity == IF Len(cvs) > 0 /\ ~hasIdentity(cvs)
                        THEN <<IDENTITY>> \o cvs
                        ELSE encodingClientValues(cvs, svs, wl)
        negotiatedValues == performNegotiation(withIdentity, svs,
                                "wildcardValueMatch", "wildcardValueCompare")
    IN  IF Len(negotiatedValues) = 0 THEN Null ELSE negotiatedValues[1].server

\* Mutant: the implicit identity is tried before the client's values.
performEncodingNegotiationIdentityFirst(cvs, svs, wl) ==
    LET alone == IF Len(cvs) > 0 /\ ~hasIdentity(cvs)
                 THEN performNegotiation(<<IDENTITY>>, svs,
                          "wildcardValueMatch", "wildcardValueCompare")
                 ELSE <<>>
        negotiatedValues ==
            IF Len(alone) = 0
            THEN performNegotiation(encodingClientValues(cvs, svs, wl), svs,
                     "wildcardValueMatch", "wildcardValueCompare")
            ELSE alone
    IN  IF Len(negotiatedValues) = 0 THEN Null ELSE negotiatedValues[1].server

\* Returns the position in serverValues of the negotiated server tuple.
performEncodingNegotiation(cvs, svs, wl) ==
    LET first == performNegotiation(encodingClientValues(cvs, svs, wl), svs,
                     "wildcardValueMatch", "wildcardValueCompare")
        negotiatedValues ==
            IF Len(first) = 0 /\ ~hasIdentity(cvs)
            THEN performNegotiation(<<IDENTITY>>, svs,
                     "wildcardValueMatch", "wildcardValueCompare")
            ELSE first
    IN  IF Len(negotiatedValues) = 0 THEN Null ELSE negotiatedValues[1].server

(***************************************************************************)
(* performTypeNegotiation                                                  *)
(***************************************************************************)
StarStar == <<"*", "*">>

\* Mutant: an empty client list is negotiated as it is.
typeClientValuesKeep(cvs) == cvs

\* clientValues as replaced when the Accept header is absent
typeClientValues(cvs) ==
    IF Len(cvs) = 0 THEN <<ValueTuple(StarStar, EMPTY_MAP)>> ELSE cvs

\* Mutant: the default wildcard weights are applied whatever the client sent.
typeComparatorAlways(cvs) == "transformCompare"

\* The comparator performTypeNegotiation negotiates with.
typeComparator(cvs) ==
    IF ~(\E i \in DOMAIN cvs : "q" \in DOMAIN cvs[i].properties)
    THEN "transformCompare"
    ELSE "mediaRangeValueCompare"

\* Mutant: only a wildcard type sends a negotiated value to the whitelist.
keepNegotiatedTypeOnly(nv, cvs, svs, wl) ==
    IF Split(cvs[nv.client].value, 1) # Star
    THEN TRUE
    ELSE svs[nv.server].value \in wl.values

\* The whitelist filter on one negotiated value.
keepNegotiated(nv, cvs, svs, wl) ==
    LET type == Split(cvs[nv.client].value, 1)
        subtype == Split(cvs[nv.client].value, 2)
    IN  IF type # Star /\ subtype # Star
        THEN TRUE
        ELSE svs[nv.server].value \in wl.values

\* Returns the position in serverValues of the negotiated server tuple.
performTypeNegotiation(cvs, svs, wl) ==
    LET cvs1 == typeClientValues(cvs)
        ranked == performNegotiation(cvs1, svs, "mediaRangeValueMatch",
                                     typeComparator(cvs1))
        Keep(nv) == keepNegotiated(nv, cvs1, svs, wl)
        negotiatedValues == IF wl.given THEN SelectSeq(ranked, Keep) ELSE ranked
    IN  IF Len(negotiatedValues) = 0 THEN Null ELSE negotiatedValues[1].server

\* The caller's client tuples after performTypeNegotiation returned.  The
\* tuple that stands for an absent Accept header is not the caller's.
clientsAfterTypeNegotiation(cvs, svs) ==
    IF Len(cvs) = 0
    THEN cvs
    ELSE clientsAfterNegotiation(cvs, svs, "mediaRangeValueMatch",
                                 typeComparator(cvs))

(***************************************************************************)
(* performTypemapNegotiation                                               *)
(***************************************************************************)
\* constructor(uri, headers)
TypeMapEntry(uri, headers) == [uri |-> uri, headers |-> headers]

\* serverTypemap.filter(...) over the first n entries: the positions of the
\* entries kept, and the client's accept tuples as the calls of
\* performTypeNegotiation left them.
RECURSIVE filterTypemap(_, _, _, _)
filterTypemap(cvs, tm, n, wl) ==
    IF n = 0
    THEN [clients |-> cvs, kept |-> <<>>]
    ELSE LET before == filterTypemap(cvs, tm, n - 1, wl)
             tme == tm[n]
             serverAcceptValues ==
                 IF "content-type" \in DOMAIN tme.headers
                 THEN tme.headers["content-type"]
                 ELSE <<>>
             sco == performTypeNegotiation(before.clients, serverAcceptValues, wl)
         IN  [clients |-> clientsAfterTypeNegotiation(before.clients,
                                                      serverAcceptValues),
              kept |-> IF sco # Null THEN Append(before.kept, n) ELSE before.kept]

clientAcceptValues(chm) == IF "accept" \in DOMAIN chm THEN chm["accept"] ELSE <<>>

whitelistAcceptValues(wlm) ==
    IF "accept" \in DOMAIN wlm THEN Whitelist(wlm["accept"]) ELSE NoWhitelist

\* Mutant: the first entry is returned without negotiation.
performTypemapNegotiationUnfiltered(chm, tm, wlm) ==
    IF Len(tm) = 0 THEN Null ELSE 1

\* Mutant: the last entry that passed the filter is returned.
performTypemapNegotiationLast(chm, tm, wlm) ==
    LET kept == filterTypemap(clientAcceptValues(chm), tm, Len(tm),
                              whitelistAcceptValues(wlm)).kept
    IN  IF Len(kept) = 0 THEN Null ELSE kept[Len(kept)]

\* Returns the position in serverTypemap of the entry selected.
performTypemapNegotiation(chm, tm, wlm) ==
    LET kept == filterTypemap(clientAcceptValues(chm), tm, Len(tm),
                              whitelistAcceptValues(wlm)).kept
    IN  IF Len(kept) = 0 THEN Null ELSE kept[1]

\* The caller's clientHeaderMap after performTypemapNegotiation returned.
clientHeaderMapAfterTypemapNegotiation(chm, tm, wlm) ==
    IF "accept" \in DOMAIN chm
    THEN [chm EXCEPT !["accept"] =
             filterTypemap(clientAcceptValues(chm), tm, Len(tm),
                           whitelistAcceptValues(wlm)).clients]
    ELSE chm

(***************************************************************************)
(* Inputs                                                                  *)
(***************************************************************************)
SeqsUpTo(S, n) == UNION {[1..k -> S] : k \in 0..n}

Gzip == <<"gzip">>

ClientEncodingTuples ==
    {ValueTuple(v, p) : v \in {Identity, Gzip, Star}, p \in {EMPTY_MAP, [q |-> 0]}}
        \cup {ValueTuple(Gzip, [q |-> 500]), ValueTuple(Gzip, [a |-> "1"])}

ServerEncodingTuples ==
    {ValueTuple(Identity, p) : p \in {EMPTY_MAP, [q |-> 0]}}
        \cup {ValueTuple(Gzip, p) : p \in {EMPTY_MAP, [q |-> 500], [a |-> "1"]}}

TextPlain == <<"text", "plain">>

TextHtml == <<"text", "html">>

TextStar == <<"text", "*">>

ClientMediaTuples ==
    {ValueTuple(v, EMPTY_MAP) : v \in {TextPlain, TextHtml, TextStar, StarStar}}
        \cup {ValueTuple(TextPlain, [q |-> 500]), ValueTuple(StarStar, [q |-> 500])}

ServerMediaTuples ==
    {ValueTuple(TextPlain, p) : p \in {EMPTY_MAP, [q |-> 9], [q |-> 11]}}
        \cup {ValueTuple(TextHtml, p) : p \in {EMPTY_MAP, [q |-> 500]}}

InitCalls ==
    /\ op = "none"
    /\ result = Null

\* No string is parsed: the calls take arrays of tuples.
InitNoString == str = <<>>

\* No typemap negotiation is set up.
InitNoTypemap ==
    /\ clientHeaderMap = EMPTY_MAP
    /\ serverTypemap = <<>>
    /\ whitelistMap = EMPTY_MAP

(***************************************************************************)
(* performNegotiation called directly                                      *)
(***************************************************************************)
NegClientTuples ==
    {ValueTuple(Gzip, p) : p \in {EMPTY_MAP, [q |-> 0], [q |-> 500], [a |-> "1"]}}
        \cup {ValueTuple(Star, p) : p \in {EMPTY_MAP, [q |-> 0]}}

NegClientMediaTuples ==
    {ValueTuple(v, EMPTY_MAP) : v \in {TextPlain, TextStar, StarStar}}
        \cup {ValueTuple(TextPlain, [q |-> 500]), ValueTuple(StarStar, [q |-> 500])}

NegServerMediaTuples ==
    {ValueTuple(v, p) : v \in {TextPlain, TextHtml}, p \in {EMPTY_MAP, [q |-> 500]}}

InitNeg ==
    /\ \/ /\ clientValues \in SeqsUpTo(NegClientTuples, MaxClient)
          /\ serverValues \in SeqsUpTo(ServerEncodingTuples, MaxServer)
       \/ /\ clientValues \in SeqsUpTo(NegClientMediaTuples, MaxClient)
          /\ serverValues \in SeqsUpTo(NegServerMediaTuples, MaxServer)
    /\ whitelist = NoWhitelist
    /\ InitNoTypemap
    /\ InitNoString
    /\ InitCalls

NegotiationWildcard ==
    /\ result' = performNegotiation(clientValues, serverValues,
                                    "wildcardValueMatch", "wildcardValueCompare")
    /\ op' = "performNegotiation(wildcard)"
    /\ UNCHANGED <<clientValues, serverValues, whitelist>>
    /\ UNCHANGED typemapArgs
    /\ UNCHANGED str

NegotiationMediaRange ==
    /\ result' = performNegotiation(clientValues, serverValues,
                                    "mediaRangeValueMatch", "mediaRangeValueCompare")
    /\ op' = "performNegotiation(mediaRange)"
    /\ UNCHANGED <<clientValues, serverValues, whitelist>>
    /\ UNCHANGED typemapArgs
    /\ UNCHANGED str

NextNeg == NegotiationWildcard \/ NegotiationMediaRange

SpecNeg == InitNeg /\ [][NextNeg]_vars

(***************************************************************************)
(* Properties of performNegotiation                                        *)
(***************************************************************************)
NegotiationCalled ==
    op \in {"performNegotiation(wildcard)", "performNegotiation(mediaRange)"}

calledMatcher ==
    IF op = "performNegotiation(wildcard)"
    THEN "wildcardValueMatch"
    ELSE "mediaRangeValueMatch"

calledComparator ==
    IF op = "performNegotiation(wildcard)"
    THEN "wildcardValueCompare"
    ELSE "mediaRangeValueCompare"

\* The client tuples (positions) that match sv.
Matching(cvs, sv, mat) == {j \in DOMAIN cvs : matcher(mat, sv, cvs[j])}

\* The matching client tuples that the comparator places behind no other.
BestClients(cvs, sv, mat, cmp) ==
    LET matching == Matching(cvs, sv, mat)
    IN  {j \in matching :
            \A k \in matching : comparator(cmp, sv, cvs[j], cvs[k]) <= 0}

\* sv is matched and a best matching client tuple gives it a positive score.
Acceptable(cvs, sv, mat, cmp) ==
    \E b \in BestClients(cvs, sv, mat, cmp) : q(cvs[b]) * q(sv) > 0

\* The positions in the ranked list r of the results for server tuple n.
Entries(r, n) == {i \in DOMAIN r : r[i].server = n}

\* C6: performNegotiation returns a result for a server tuple sv if and only
\* if some client tuple matches sv and the comparator-best matching client
\* tuple b has b.q * sv.q > 0; the result refers to sv itself, carries the
\* score b.q * sv.q, and there is at most one result per server tuple.
C6_ResultIffBestMatchPositive ==
    NegotiationCalled =>
        /\ \A i \in DOMAIN result : result[i].server \in DOMAIN serverValues
        /\ \A n \in DOMAIN serverValues :
              LET sv == serverValues[n]
                  best == BestClients(clientValues, sv, calledMatcher, calledComparator)
                  entries == Entries(result, n)
              IN  /\ Cardinality(entries) <= 1
                  /\ (entries # {}) <=>
                        Acceptable(clientValues, sv, calledMatcher, calledComparator)
                  /\ \A i \in entries :
                        /\ result[i].client \in best
                        /\ result[i].score = q(clientValues[result[i].client]) * q(sv)
                        /\ result[i].score > 0

\* A matched server tuple was dropped for its score while another was kept.
C6_Witness ==
    /\ op = "performNegotiation(wildcard)"
    /\ \E n, m \in DOMAIN serverValues :
          /\ Matching(clientValues, serverValues[n], "wildcardValueMatch") # {}
          /\ Entries(result, n) = {}
          /\ Entries(result, m) # {}

\* C7: the sequence performNegotiation returns is ordered by non-increasing
\* score, results of equal score keep the order of their server tuples in
\* serverValues, and every acceptable server tuple is in it (the whole
\* ranking, not only its top).
C7_RankedByScoreStable ==
    NegotiationCalled =>
        /\ \A i, j \in DOMAIN result :
              i < j => \/ result[i].score > result[j].score
                       \/ /\ result[i].score = result[j].score
                          /\ result[i].server < result[j].server
        /\ Len(result) =
              Cardinality({n \in DOMAIN serverValues :
                  Acceptable(clientValues, serverValues[n],
                             calledMatcher, calledComparator)})

\* Two results, the later server tuple ranked first for its higher score.
C7_Witness ==
    /\ NegotiationCalled
    /\ Len(result) >= 2
    /\ result[1].server > result[2].server
    /\ result[1].score > result[2].score

\* The literal and the '*' client tuples that match server tuple sv.
LiteralMatches(cvs, sv) ==
    {j \in Matching(cvs, sv, "wildcardValueMatch") : cvs[j].value # Star}

StarMatches(cvs, sv) ==
    {j \in Matching(cvs, sv, "wildcardValueMatch") : cvs[j].value = Star}

\* C8: with the wildcard pair, a server tuple matched both by a client tuple
\* with its literal value and by a client '*' tuple is scored from a literal
\* client tuple's q, whatever the q values are; when every matching literal
\* entry has q = 0 the server value is excluded even if '*' has q > 0.
C8_LiteralBeforeWildcard ==
    op = "performNegotiation(wildcard)" =>
        \A n \in DOMAIN serverValues :
            LET sv == serverValues[n]
                lit == LiteralMatches(clientValues, sv)
            IN  (lit # {} /\ StarMatches(clientValues, sv) # {}) =>
                    /\ \A i \in Entries(result, n) :
                          /\ result[i].client \in lit
                          /\ result[i].score = q(clientValues[result[i].client]) * q(sv)
                    /\ (\A j \in lit : q(clientValues[j]) = 0) => Entries(result, n) = {}
                    /\ Entries(result, n) = {} =>
                          \E j \in lit : q(clientValues[j]) * q(sv) <= 0

\* A server tuple matched by a literal entry and by a '*' entry of higher q,
\* and one matched by a literal entry of q = 0 and a '*' entry of q > 0.
C8_Witness ==
    /\ op = "performNegotiation(wildcard)"
    /\ \E n \in DOMAIN serverValues :
          LET sv == serverValues[n]
          IN  \/ /\ Entries(result, n) # {}
                 /\ \E j \in LiteralMatches(clientValues, sv) :
                       \E k \in StarMatches(clientValues, sv) :
                          q(clientValues[k]) > q(clientValues[j])
              \/ /\ Entries(result, n) = {}
                 /\ q(sv) > 0
                 /\ LiteralMatches(clientValues, sv) # {}
                 /\ \E k \in StarMatches(clientValues, sv) : q(clientValues[k]) > 0

\* The (server tuple, score) pairs of a ranked list.
ServerScores(r) == [i \in DOMAIN r |-> <<r[i].server, r[i].score>>]

\* The client list rearranged by the permutation p of its positions.
Permuted(cvs, p) == [i \in DOMAIN cvs |-> cvs[p[i]]]

\* C29: with the wildcard pair or the media-range pair, the score
\* performNegotiation assigns to a server tuple does not depend on the order
\* of clientValues: two matching client tuples for which the comparator
\* returns 0 have equal q, and every permutation of clientValues yields the
\* same ranked list of (server tuple, score).
C29_ClientOrderIrrelevant ==
    NegotiationCalled =>
        /\ \A n \in DOMAIN serverValues :
              LET sv == serverValues[n]
                  matching == Matching(clientValues, sv, calledMatcher)
              IN  \A j, k \in matching :
                      comparator(calledComparator, sv,
                                 clientValues[j], clientValues[k]) = 0
                          => q(clientValues[j]) = q(clientValues[k])
        /\ \A p \in Permutations(DOMAIN clientValues) :
              ServerScores(performNegotiation(Permuted(clientValues, p),
                               serverValues, calledMatcher, calledComparator))
                  = ServerScores(result)

\* Two client tuples of the same kind match the first-ranked server tuple;
\* the second of them has the higher q and gives the score.
C29_Witness ==
    /\ NegotiationCalled
    /\ Len(clientValues) >= 2
    /\ Len(result) >= 1
    /\ result[1].client = 2
    /\ 1 \in Matching(clientValues, serverValues[result[1].server], calledMatcher)
    /\ clientValues[1].value = clientValues[2].value
    /\ q(clientValues[2]) > q(clientValues[1])

(***************************************************************************)
(* performEncodingNegotiation called on Accept-Encoding values             *)
(***************************************************************************)
EncodingWhitelists == {NoWhitelist, Whitelist({}), Whitelist({Gzip})}

InitEnc ==
    /\ clientValues \in SeqsUpTo(ClientEncodingTuples, MaxClient)
    /\ serverValues \in SeqsUpTo(ServerEncodingTuples, MaxServer)
    /\ whitelist \in EncodingWhitelists
    /\ InitNoTypemap
    /\ InitNoString
    /\ InitCalls

EncodingNegotiation ==
    /\ result' = performEncodingNegotiation(clientValues, serverValues, whitelist)
    /\ op' = "performEncodingNegotiation"
    /\ UNCHANGED <<clientValues, serverValues, whitelist>>
    /\ UNCHANGED typemapArgs
    /\ UNCHANGED str

NextEnc == EncodingNegotiation

SpecEnc == InitEnc /\ [][NextEnc]_vars

(***************************************************************************)
(* Properties of performEncodingNegotiation                                *)
(***************************************************************************)
EncodingCalled == op = "performEncodingNegotiation"

\* The server tuple (position) a ranked list puts first, or null.
Top(r) == IF Len(r) = 0 THEN Null ELSE r[1].server

NoClientMatchesIdentity ==
    \A i \in DOMAIN clientValues : ~wildcardValueMatch(IDENTITY, clientValues[i])

\* C1, as claimed: with a non-empty client list in which no value matches
\* identity, the result is the top-ranked result of one negotiation pass over
\* [identity;q=1] ++ clientValues.
C1_IdentityPrepended ==
    (EncodingCalled /\ Len(clientValues) > 0 /\ NoClientMatchesIdentity) =>
        result = Top(performNegotiation(<<IDENTITY>> \o clientValues, serverValues,
                         "wildcardValueMatch", "wildcardValueCompare"))

\* C1, amended: with a non-empty client list in which no value matches
\* identity, the result is the top-ranked result of the negotiation pass over
\* clientValues when that pass ranks anything, and otherwise the top-ranked
\* result of a pass over [identity;q=1] alone (null when that is empty too);
\* client [gzip;q=0.5] against server [identity, gzip] yields gzip.
C1_IdentityFallback ==
    (EncodingCalled /\ Len(clientValues) > 0 /\ NoClientMatchesIdentity) =>
        LET first == performNegotiation(clientValues, serverValues,
                         "wildcardValueMatch", "wildcardValueCompare")
        IN  /\ result = IF Len(first) > 0
                        THEN Top(first)
                        ELSE Top(performNegotiation(<<IDENTITY>>, serverValues,
                                     "wildcardValueMatch", "wildcardValueCompare"))
            /\ ( /\ clientValues = <<ValueTuple(Gzip, [q |-> 500])>>
                 /\ serverValues = <<ValueTuple(Identity, EMPTY_MAP),
                                     ValueTuple(Gzip, EMPTY_MAP)>> )
                    => result = 2

\* The client's values ranked nothing and the lone identity pass gave the result.
C1_Witness ==
    /\ EncodingCalled
    /\ Len(clientValues) > 0
    /\ NoClientMatchesIdentity
    /\ performNegotiation(clientValues, serverValues,
           "wildcardValueMatch", "wildcardValueCompare") = <<>>
    /\ result # Null

\* The server tuples acceptable to the client's explicit values.
FirstPass ==
    {n \in DOMAIN serverValues :
        Acceptable(clientValues, serverValues[n],
                   "wildcardValueMatch", "wildcardValueCompare")}

\* The scores a best matching client tuple gives server tuple n.
FirstPassScores(n) ==
    {q(clientValues[b]) * q(serverValues[n]) :
        b \in BestClients(clientValues, serverValues[n],
                          "wildcardValueMatch", "wildcardValueCompare")}

\* n is ranked before every other member of the first pass.
TopOfFirstPass(n) ==
    /\ n \in FirstPass
    /\ \A m \in FirstPass \ {n} :
          \A s \in FirstPassScores(n) : \A t \in FirstPassScores(m) :
              s > t \/ (s = t /\ n < m)

\* C2: whenever a server value scores > 0 against the client's explicit
\* values the returned server value is the top-ranked one of that pass;
\* identity;q=1 is tried alone only when that pass is empty and no client
\* value matches identity.
C2_IdentityAfterOtherEncodings ==
    (EncodingCalled /\ Len(clientValues) > 0) =>
        /\ FirstPass # {} => TopOfFirstPass(result)
        /\ (FirstPass = {} /\ ~NoClientMatchesIdentity) => result = Null
        /\ (FirstPass = {} /\ result # Null) => serverValues[result].value = Identity

\* gzip is returned although the identity server value has the higher q.
C2_Witness ==
    /\ EncodingCalled
    /\ Len(clientValues) > 0
    /\ NoClientMatchesIdentity
    /\ result # Null
    /\ serverValues[result].value = Gzip
    /\ \E n \in DOMAIN serverValues :
          /\ serverValues[n].value = Identity
          /\ q(serverValues[n]) * QOne > CHOOSE s \in FirstPassScores(result) : TRUE

\* The client rejects identity: it lists identity;q=0 and no other identity
\* entry, or *;q=0 and neither an identity entry nor another * entry.
RejectsIdentity ==
    \/ \E i \in DOMAIN clientValues :
          /\ clientValues[i] = ValueTuple(Identity, [q |-> 0])
          /\ \A j \in DOMAIN clientValues \ {i} : clientValues[j].value # Identity
    \/ \E i \in DOMAIN clientValues :
          /\ clientValues[i] = ValueTuple(Star, [q |-> 0])
          /\ \A j \in DOMAIN clientValues \ {i} :
                clientValues[j].value \notin {Identity, Star}

\* C9: performEncodingNegotiation never returns a server tuple whose value is
\* identity when the client explicitly rejects identity; the result is null
\* if no other server value is acceptable.
C9_IdentityRejected ==
    (EncodingCalled /\ RejectsIdentity) =>
        /\ result # Null => serverValues[result].value # Identity
        /\ (\A n \in FirstPass : serverValues[n].value = Identity) => result = Null

\* identity is offered with q > 0 and rejected through *;q=0: the result is null.
C9_Witness ==
    /\ EncodingCalled
    /\ RejectsIdentity
    /\ \E i \in DOMAIN clientValues : clientValues[i].value = Star
    /\ \E n \in DOMAIN serverValues :
          serverValues[n].value = Identity /\ q(serverValues[n]) > 0
    /\ result = Null

\* C28: when clientValues is not empty the whitelist argument of
\* performEncodingNegotiation has no influence on the result: every
\* whitelist, and none, gives the same result for the same client and server
\* lists, so a client '*' can select a server encoding that is not in the
\* whitelist.
C28_WhitelistIgnoredWithClientValues ==
    (EncodingCalled /\ Len(clientValues) > 0) =>
        \A wl \in EncodingWhitelists \cup {Whitelist({Identity})} :
            result = performEncodingNegotiation(clientValues, serverValues, wl)

\* Under a whitelist a server encoding outside it is returned, through a
\* client '*' and no literal client value.
C28_Witness ==
    /\ EncodingCalled
    /\ whitelist.given
    /\ result # Null
    /\ serverValues[result].value \notin whitelist.values \cup {Identity}
    /\ \E i \in DOMAIN clientValues : clientValues[i].value = Star
    /\ \A i \in DOMAIN clientValues :
          clientValues[i].value # serverValues[result].value

NoAcceptEncoding == EncodingCalled /\ Len(clientValues) = 0 /\ ~whitelist.given

\* n is the earliest server tuple of maximal q.
EarliestMaxQ(n) ==
    /\ n \in DOMAIN serverValues
    /\ \A m \in DOMAIN serverValues :
          \/ q(serverValues[n]) > q(serverValues[m])
          \/ q(serverValues[n]) = q(serverValues[m]) /\ n <= m

\* C10, as claimed: with an empty client list and no whitelist the result is
\* the server tuple of maximal q, the earliest one on ties.
C10_MaxServerQ ==
    (NoAcceptEncoding /\ Len(serverValues) > 0) => EarliestMaxQ(result)

\* C10, amended: with an empty client list and no whitelist the result is
\* the server tuple of maximal q, the earliest one on ties, provided that q
\* is > 0; it is null when no server tuple has q > 0.
C10_MaxPositiveServerQ ==
    NoAcceptEncoding =>
        IF \E n \in DOMAIN serverValues : q(serverValues[n]) > 0
        THEN EarliestMaxQ(result)
        ELSE result = Null

\* The second server tuple is returned for its higher q.
C10_Witness ==
    /\ NoAcceptEncoding
    /\ Len(serverValues) >= 2
    /\ result = 2
    /\ q(serverValues[2]) > q(serverValues[1])
    /\ q(serverValues[1]) > 0

(***************************************************************************)
(* Properties of performTypeNegotiation                                    *)
(***************************************************************************)
NoExplicitQ(cvs) == \A i \in DOMAIN cvs : "q" \notin DOMAIN cvs[i].properties

\* The client list with q = 0.01 on every */* and q = 0.02 on every type/*
\* that has no q.
WithDefaultWeights(cvs) ==
    [i \in DOMAIN cvs |->
        IF "q" \in DOMAIN cvs[i].properties
        THEN cvs[i]
        ELSE IF Split(cvs[i].value, 1) = Star
             THEN ValueTuple(cvs[i].value, [q |-> FullWildcardQ])
             ELSE IF Split(cvs[i].value, 2) = Star
                  THEN ValueTuple(cvs[i].value, [q |-> SubtypeWildcardQ])
                  ELSE cvs[i]]

\* C3: when no client value carries an explicit q, performTypeNegotiation
\* weights a server value whose best client match is */* with client q = 0.01
\* and one whose best client match is type/* with client q = 0.02, for every
\* server value and every order of serverValues, also when the wildcard is
\* the only client value that matches the server value.
C3_WildcardDefaultWeights ==
    [][ ( /\ op' = "performTypeNegotiation"
          /\ ~whitelist.given
          /\ Len(clientValues) > 0
          /\ NoExplicitQ(clientValues) )
        => result' = Top(performNegotiation(WithDefaultWeights(clientValues),
                             serverValues,
                             "mediaRangeValueMatch", "mediaRangeValueCompare")) ]_vars

\* C4: two consecutive calls of the same negotiation function with the same
\* clientValues and serverValues objects return the same result.
C4_SameInputsSameResult ==
    [][ (op # "none" /\ op' = op) => result' = result ]_vars

\* C5: negotiation never mutates its inputs: every tuple of clientValues and
\* serverValues has the same value and the same properties after the call.
C5_InputsNotMutated ==
    [][ clientValues' = clientValues /\ serverValues' = serverValues ]_vars

\* The client tuples comparator-best for sv under mediaRangeValueCompare,
\* each counted with the q it carries (1 when it carries none).
BestRanges(cvs, sv) ==
    BestClients(cvs, sv, "mediaRangeValueMatch", "mediaRangeValueCompare")

HasWildcard(vt) == Split(vt.value, 1) = Star \/ Split(vt.value, 2) = Star

\* best is the set of best client matches of sv: it passes the whitelist wl
\* if one of them has no wildcard component or the value of sv is in wl.
PassesWith(best, cvs, sv, wl) ==
    \/ ~wl.given
    \/ sv.value \in wl.values
    \/ \E b \in best : ~HasWildcard(cvs[b])

PassesWhitelist(cvs, sv, wl) == PassesWith(BestRanges(cvs, sv), cvs, sv, wl)

\* Every server tuple's scores under the q values the client tuples carry
\* (the q of a best client match times the q of the server tuple), and the
\* candidates: the server tuples with a positive score that pass the
\* whitelist.
RangeRanking(cvs, svs, wl) ==
    LET best == [n \in DOMAIN svs |-> BestRanges(cvs, svs[n])]
        scores == [n \in DOMAIN svs |->
                      {q(cvs[b]) * q(svs[n]) : b \in best[n]}]
    IN  [scores |-> scores,
         candidates |-> {n \in DOMAIN svs :
                            /\ \E s \in scores[n] : s > 0
                            /\ PassesWith(best[n], cvs, svs[n], wl)}]

PlainCandidates(cvs, svs, wl) == RangeRanking(cvs, svs, wl).candidates

PlainScores(cvs, sv) == {q(cvs[b]) * q(sv) : b \in BestRanges(cvs, sv)}

\* n has the highest score of the candidates of ranking rk and is the
\* earliest such.
PlainTop(n, rk) ==
    /\ n \in rk.candidates
    /\ \A m \in rk.candidates \ {n} :
          \A s \in rk.scores[n] : \A t \in rk.scores[m] :
              s > t \/ (s = t /\ n < m)

\* C12: when at least one client value carries an explicit q,
\* performTypeNegotiation applies no default wildcard weight: every client
\* value without a q counts with q = 1, wildcards included, an explicit q on
\* a wildcard is used as it is, and no client tuple is changed.
C12_ExplicitQNoDefaultWeights ==
    [][ (op' = "performTypeNegotiation" /\ ~NoExplicitQ(clientValues)) =>
            /\ clientValues' = clientValues
            /\ LET rk == RangeRanking(clientValues, serverValues, whitelist)
               IN  IF rk.candidates = {}
                   THEN result' = Null
                   ELSE PlainTop(result', rk) ]_vars

\* A wildcard without q, next to a client value with an explicit q, gave the
\* returned server tuple a full-weight score that beats another server tuple
\* which the default weight would have let win.
C12_Witness ==
    /\ op = "performTypeNegotiation"
    /\ ~NoExplicitQ(clientValues)
    /\ result # Null
    /\ \E i \in BestRanges(clientValues, serverValues[result]) :
          /\ HasWildcard(clientValues[i])
          /\ "q" \notin DOMAIN clientValues[i].properties
    /\ \E m \in DOMAIN serverValues \ {result} :
          \E t \in PlainScores(clientValues, serverValues[m]) :
              /\ t > SubtypeWildcardQ * q(serverValues[result])
              /\ t < QOne * q(serverValues[result])

\* C13: with a whitelist (the empty set included) performTypeNegotiation
\* returns the highest-ranked server tuple whose best client match has no
\* wildcard component or whose value is in the whitelist; a server tuple
\* reached only through a wildcard and not whitelisted is never returned, and
\* the result is null when no ranked server tuple passes.
C13_WhitelistFiltersWildcardMatches ==
    [][ (op' = "performTypeNegotiation" /\ whitelist.given) =>
            LET cvs == typeClientValues(clientValues)
                ranked == performNegotiation(cvs, serverValues,
                              "mediaRangeValueMatch", typeComparator(cvs))
                passing == {i \in DOMAIN ranked :
                               PassesWhitelist(cvs, serverValues[ranked[i].server],
                                               whitelist)}
            IN  IF passing # {}
                THEN \E i \in passing :
                        /\ \A j \in passing : i <= j
                        /\ result' = ranked[i].server
                ELSE result' = Null ]_vars

\* The first server tuple is reached through a wildcard only and is not
\* whitelisted; the second, of no higher q, is returned.
C13_Witness ==
    /\ op = "performTypeNegotiation"
    /\ whitelist.given
    /\ result = 2
    /\ q(serverValues[1]) >= q(serverValues[2])
    /\ Matching(clientValues, serverValues[1], "mediaRangeValueMatch") # {}
    /\ ~PassesWhitelist(clientValues, serverValues[1], whitelist)

(***************************************************************************)
(* performTypeNegotiation called on Accept values                          *)
(***************************************************************************)
TypeWhitelists == {NoWhitelist, Whitelist({}), Whitelist({TextHtml})}

InitType ==
    /\ clientValues \in SeqsUpTo(ClientMediaTuples, MaxClient)
    /\ serverValues \in SeqsUpTo(ServerMediaTuples, MaxServer)
    /\ whitelist \in TypeWhitelists
    /\ InitNoTypemap
    /\ InitNoString
    /\ InitCalls

TypeNegotiation ==
    /\ result' = performTypeNegotiation(clientValues, serverValues, whitelist)
    /\ clientValues' = clientsAfterTypeNegotiation(clientValues, serverValues)
    /\ op' = "performTypeNegotiation"
    /\ UNCHANGED <<serverValues, whitelist>>
    /\ UNCHANGED typemapArgs
    /\ UNCHANGED str

NextType == TypeNegotiation

SpecType == InitType /\ [][NextType]_vars

(***************************************************************************)
(* Negotiation without the client's header: clientValues is empty           *)
(***************************************************************************)
Br == <<"br">>

AbsentServerEncodingTuples ==
    {ValueTuple(Identity, p) : p \in {EMPTY_MAP, [q |-> 0], [q |-> 100]}}
        \cup {ValueTuple(Gzip, p) : p \in {EMPTY_MAP, [q |-> 500], [a |-> "1"]}}
        \cup {ValueTuple(Br, p) : p \in {EMPTY_MAP, [q |-> 500]}}

AbsentServerMediaTuples ==
    {ValueTuple(TextPlain, p) : p \in {EMPTY_MAP, [q |-> 0], [q |-> 9], [q |-> 11]}}
        \cup {ValueTuple(TextHtml, p) : p \in {EMPTY_MAP, [q |-> 0], [q |-> 500]}}

AbsentEncodingWhitelists ==
    {NoWhitelist, Whitelist({}), Whitelist({Gzip}), Whitelist({<<"bort">>})}

InitAbsent ==
    /\ clientValues = <<>>
    /\ \/ /\ serverValues \in SeqsUpTo(AbsentServerEncodingTuples, MaxServer)
          /\ whitelist \in AbsentEncodingWhitelists
       \/ /\ serverValues \in SeqsUpTo(AbsentServerMediaTuples, MaxServer)
          /\ whitelist \in TypeWhitelists
    /\ InitNoTypemap
    /\ InitNoString
    /\ InitCalls

NextAbsent == EncodingNegotiation \/ TypeNegotiation

SpecAbsent == InitAbsent /\ [][NextAbsent]_vars

(***************************************************************************)
(* Properties of negotiation without the client's header                   *)
(***************************************************************************)
\* The server tuples whose value is identity or in the whitelist.
WhitelistCandidates ==
    {n \in DOMAIN serverValues :
        \/ serverValues[n].value = Identity
        \/ serverValues[n].value \in whitelist.values}

\* C11: with an empty client list and a whitelist, performEncodingNegotiation
\* returns null or a server tuple whose value is identity or in the
\* whitelist; the tuple returned is the one of highest q among those (the
\* earliest on ties), and null is returned only when none of them has q > 0.
\* A server value outside the whitelist is not chosen, whatever its q.
C11_DefaultWithinWhitelist ==
    (EncodingCalled /\ Len(clientValues) = 0 /\ whitelist.given) =>
        /\ result # Null =>
              /\ result \in WhitelistCandidates
              /\ \A m \in WhitelistCandidates :
                    \/ q(serverValues[result]) > q(serverValues[m])
                    \/ q(serverValues[result]) = q(serverValues[m]) /\ result <= m
        /\ result = Null <=>
              \A m \in WhitelistCandidates : q(serverValues[m]) = 0

\* A server value outside the whitelist has the highest q and is passed over.
C11_Witness ==
    /\ EncodingCalled
    /\ Len(clientValues) = 0
    /\ whitelist.given
    /\ result # Null
    /\ \E n \in DOMAIN serverValues \ WhitelistCandidates :
          q(serverValues[n]) > q(serverValues[result])

\* C14: performTypeNegotiation with an empty client list and no whitelist
\* returns what it returns for the single client value */*: the server tuple
\* of highest q, the earliest on ties, and null only when no server tuple has
\* q > 0.
C14_AbsentAcceptIsAnyType ==
    (op = "performTypeNegotiation" /\ Len(clientValues) = 0 /\ ~whitelist.given) =>
        /\ IF \E n \in DOMAIN serverValues : q(serverValues[n]) > 0
           THEN EarliestMaxQ(result)
           ELSE result = Null
        /\ result = performTypeNegotiation(<<ValueTuple(StarStar, EMPTY_MAP)>>,
                                           serverValues, whitelist)

\* The second server tuple is returned for its higher q, the first has q > 0.
C14_Witness ==
    /\ op = "performTypeNegotiation"
    /\ Len(clientValues) = 0
    /\ ~whitelist.given
    /\ Len(serverValues) >= 2
    /\ result = 2
    /\ q(serverValues[2]) > q(serverValues[1])
    /\ q(serverValues[1]) > 0

(***************************************************************************)
(* performTypemapNegotiation called on a typemap                           *)
(***************************************************************************)
TypemapEntries ==
    { TypeMapEntry("none", EMPTY_MAP),
      TypeMapEntry("empty", "content-type" :> <<>>),
      TypeMapEntry("plain",
          "content-type" :> <<ValueTuple(TextPlain, [q |-> 500])>>
              @@ "content-encoding" :> <<ValueTuple(Gzip, EMPTY_MAP)>>),
      TypeMapEntry("html",
          "content-type" :> <<ValueTuple(TextHtml, EMPTY_MAP)>>
              @@ "content-encoding" :> <<ValueTuple(Identity, EMPTY_MAP)>>),
      TypeMapEntry("br",
          "content-type" :> <<ValueTuple(TextHtml, EMPTY_MAP)>>
              @@ "content-encoding" :> <<ValueTuple(Br, EMPTY_MAP)>>),
      TypeMapEntry("zero",
          "content-type" :> <<ValueTuple(TextPlain, [q |-> 0])>>) }

TypemapAcceptTuples ==
    { ValueTuple(TextPlain, EMPTY_MAP), ValueTuple(TextStar, EMPTY_MAP),
      ValueTuple(TextHtml, [q |-> 500]) }

\* The client's headers: accept and accept-encoding, each present or not.
TypemapClientHeaderMaps ==
    LET accepts == {EMPTY_MAP}
            \cup {"accept" :> l : l \in SeqsUpTo(TypemapAcceptTuples, MaxClient)}
        encodings == {EMPTY_MAP,
                      "accept-encoding" :> <<ValueTuple(Gzip, EMPTY_MAP)>>}
    IN  {a @@ e : a \in accepts, e \in encodings}

TypemapWhitelistMaps == {EMPTY_MAP, "accept" :> {TextHtml}}

InitTypemap ==
    /\ clientHeaderMap \in TypemapClientHeaderMaps
    /\ serverTypemap \in SeqsUpTo(TypemapEntries, MaxEntries)
    /\ whitelistMap \in TypemapWhitelistMaps
    /\ clientValues = <<>>
    /\ serverValues = <<>>
    /\ whitelist = NoWhitelist
    /\ InitNoString
    /\ InitCalls

TypemapNegotiation ==
    /\ result' = performTypemapNegotiation(clientHeaderMap, serverTypemap,
                                           whitelistMap)
    /\ clientHeaderMap' = clientHeaderMapAfterTypemapNegotiation(
                              clientHeaderMap, serverTypemap, whitelistMap)
    /\ op' = "performTypemapNegotiation"
    /\ UNCHANGED <<serverTypemap, whitelistMap>>
    /\ UNCHANGED <<clientValues, serverValues, whitelist>>
    /\ UNCHANGED str

NextTypemap == TypemapNegotiation

SpecTypemap == InitTypemap /\ [][NextTypemap]_vars

(***************************************************************************)
(* Properties of performTypemapNegotiation                                 *)
(***************************************************************************)
\* The content-type tuples of a typemap entry.
EntryTypes(tme) ==
    IF "content-type" \in DOMAIN tme.headers
    THEN tme.headers["content-type"]
    ELSE <<>>

\* The client's accept tuples as performTypeNegotiation takes them.
AcceptTuples(chm) == typeClientValues(clientAcceptValues(chm))

\* Type negotiation of the entry's content-type values against the client's
\* accept values has an acceptable result.
Survives(chm, tme, wlm) ==
    PlainCandidates(AcceptTuples(chm), EntryTypes(tme),
                    whitelistAcceptValues(wlm)) # {}

Survivors(chm, tm, wlm) == {k \in DOMAIN tm : Survives(chm, tm[k], wlm)}

EntryScores(chm, tme, wlm) ==
    UNION {PlainScores(AcceptTuples(chm), EntryTypes(tme)[n]) :
              n \in PlainCandidates(AcceptTuples(chm), EntryTypes(tme),
                                    whitelistAcceptValues(wlm))}

\* C16: performTypemapNegotiation selects by score: among the entries
\* acceptable to the client it returns one whose content-type negotiation
\* score (client q times server q) is highest, not merely the first
\* acceptable one in typemap order.
C16_HighestScoreEntry ==
    [][ (op' = "performTypemapNegotiation" /\ result' # Null) =>
            \A k \in Survivors(clientHeaderMap, serverTypemap, whitelistMap) :
                \A t \in EntryScores(clientHeaderMap, serverTypemap[k], whitelistMap) :
                    \E s \in EntryScores(clientHeaderMap, serverTypemap[result'],
                                         whitelistMap) : s >= t ]_vars

\* Encoding negotiation of the entry's content-encoding values against the
\* client's accept-encoding values has a result.
EncodingAcceptable(chm, tme) ==
    performEncodingNegotiation(chm["accept-encoding"],
                               tme.headers["content-encoding"],
                               NoWhitelist) # Null

\* C17: performTypemapNegotiation returns no entry whose content-encoding is
\* not acceptable under the client's accept-encoding values, even if its
\* content-type is acceptable; it returns null when no entry is acceptable
\* on every negotiated header.
C17_EveryHeaderAcceptable ==
    ( /\ op = "performTypemapNegotiation"
      /\ result # Null
      /\ "accept-encoding" \in DOMAIN clientHeaderMap ) =>
        ("content-encoding" \in DOMAIN serverTypemap[result].headers
            => EncodingAcceptable(clientHeaderMap, serverTypemap[result]))

(***************************************************************************)
(* The matchers called on one server tuple and one client tuple            *)
(***************************************************************************)
StarPlain == <<"*", "plain">>

ImagePlain == <<"image", "plain">>

\* Parameter maps: a in {absent, '1', '2'}, b in {absent, '2'}, q in
\* {absent, 0.5}.
MatchProperties ==
    {pa @@ pb @@ pq : pa \in {EMPTY_MAP, [a |-> "1"], [a |-> "2"]},
                      pb \in {EMPTY_MAP, [b |-> "2"]},
                      pq \in {EMPTY_MAP, [q |-> 500]}}

MatchServerTuples ==
    {ValueTuple(v, p) : v \in {Gzip, Star, TextPlain}, p \in MatchProperties}

MatchClientTuples ==
    {ValueTuple(v, p) :
        v \in {Gzip, Identity, Star, TextPlain, TextHtml, ImagePlain,
               TextStar, StarPlain, StarStar},
        p \in MatchProperties}

InitMatch ==
    /\ \E st \in MatchServerTuples : serverValues = <<st>>
    /\ \E ct \in MatchClientTuples : clientValues = <<ct>>
    /\ whitelist = NoWhitelist
    /\ InitNoTypemap
    /\ InitNoString
    /\ InitCalls

ParameterMatch ==
    /\ result' = parameterMatch(serverValues[1], clientValues[1])
    /\ op' = "parameterMatch"
    /\ UNCHANGED <<clientValues, serverValues, whitelist>>
    /\ UNCHANGED typemapArgs
    /\ UNCHANGED str

WildcardValueMatch ==
    /\ result' = wildcardValueMatch(serverValues[1], clientValues[1])
    /\ op' = "wildcardValueMatch"
    /\ UNCHANGED <<clientValues, serverValues, whitelist>>
    /\ UNCHANGED typemapArgs
    /\ UNCHANGED str

MediaRangeValueMatch ==
    /\ result' = mediaRangeValueMatch(serverValues[1], clientValues[1])
    /\ op' = "mediaRangeValueMatch"
    /\ UNCHANGED <<clientValues, serverValues, whitelist>>
    /\ UNCHANGED typemapArgs
    /\ UNCHANGED str

NextMatch == ParameterMatch \/ WildcardValueMatch \/ MediaRangeValueMatch

SpecMatch == InitMatch /\ [][NextMatch]_vars

(***************************************************************************)
(* Properties of the matchers                                              *)
(***************************************************************************)
\* The parameter names of a tuple other than q.
NonQ(vt) == DOMAIN vt.properties \ {"q"}

\* The tuple without its q parameter, and with its q parameter set to x.
WithoutQ(vt) ==
    ValueTuple(vt.value, [k \in NonQ(vt) |-> vt.properties[k]])

WithQ(vt, x) ==
    ValueTuple(vt.value,
               [k \in NonQ(vt) \cup {"q"} |->
                   IF k = "q" THEN x ELSE vt.properties[k]])

\* C18: parameterMatch(server, client) is true if and only if every non-q
\* key present on both sides has the same value on both and every non-q key
\* of the client is a key of the server; the q entries of either side never
\* influence the result.
C18_ParameterMatchIff ==
    op = "parameterMatch" =>
        LET st == serverValues[1]
            ct == clientValues[1]
        IN  /\ result <=>
                  /\ \A k \in NonQ(st) \cap NonQ(ct) :
                        st.properties[k] = ct.properties[k]
                  /\ NonQ(ct) \subseteq NonQ(st)
            /\ \A s \in {WithoutQ(st), WithQ(st, 0), WithQ(st, QOne)} :
                  \A c \in {WithoutQ(ct), WithQ(ct, 0), WithQ(ct, QOne)} :
                      result = parameterMatch(s, c)

\* A match although only the server carries a q and the server has a
\* parameter the client lacks.
C18_Witness ==
    /\ op = "parameterMatch"
    /\ result
    /\ "q" \in DOMAIN serverValues[1].properties
    /\ "q" \notin DOMAIN clientValues[1].properties
    /\ NonQ(clientValues[1]) # {}
    /\ NonQ(clientValues[1]) # NonQ(serverValues[1])

\* C19: wildcardValueMatch(server, client) is true if and only if the values
\* are equal or the client's value is '*', and parameterMatch(server, client)
\* holds; a server value '*' does not match a literal client value.
C19_WildcardValueMatchIff ==
    op = "wildcardValueMatch" =>
        LET st == serverValues[1]
            ct == clientValues[1]
        IN  /\ result <=>
                  /\ st.value = ct.value \/ ct.value = Star
                  /\ parameterMatch(st, ct)
            /\ (st.value = Star /\ ct.value # Star) => ~result

\* The server's '*' is refused by a literal client value whose parameters
\* match.
C19_Witness ==
    /\ op = "wildcardValueMatch"
    /\ serverValues[1].value = Star
    /\ clientValues[1].value # Star
    /\ parameterMatch(serverValues[1], clientValues[1])
    /\ ~result

(***************************************************************************)
(* The comparators called on one server tuple and two client tuples        *)
(***************************************************************************)
CompareProperties ==
    {EMPTY_MAP, [q |-> 500], [a |-> "1"], [a |-> "1", q |-> 500],
     [a |-> "1", b |-> "2"]}

CompareServerTuples ==
    {ValueTuple(Gzip, p) : p \in {EMPTY_MAP, [a |-> "1"], [a |-> "1", b |-> "2"]}}
        \cup {ValueTuple(TextPlain, p) : p \in {EMPTY_MAP, [a |-> "1"]}}

CompareClientTuples ==
    {ValueTuple(v, p) :
        v \in {Gzip, Star, TextPlain, TextHtml, TextStar, StarPlain, StarStar},
        p \in CompareProperties}

InitCompare ==
    /\ \E st \in CompareServerTuples : serverValues = <<st>>
    /\ \E at, bt \in CompareClientTuples : clientValues = <<at, bt>>
    /\ whitelist = NoWhitelist
    /\ InitNoTypemap
    /\ InitNoString
    /\ InitCalls

WildcardValueCompare ==
    /\ result' = wildcardValueCompare(serverValues[1], clientValues[1],
                                      clientValues[2])
    /\ op' = "wildcardValueCompare"
    /\ UNCHANGED <<clientValues, serverValues, whitelist>>
    /\ UNCHANGED typemapArgs
    /\ UNCHANGED str

MediaRangeValueCompare ==
    /\ result' = mediaRangeValueCompare(serverValues[1], clientValues[1],
                                        clientValues[2])
    /\ op' = "mediaRangeValueCompare"
    /\ UNCHANGED <<clientValues, serverValues, whitelist>>
    /\ UNCHANGED typemapArgs
    /\ UNCHANGED str

NextCompare == WildcardValueCompare \/ MediaRangeValueCompare

SpecCompare == InitCompare /\ [][NextCompare]_vars

(***************************************************************************)
(* Properties of the comparators                                           *)
(***************************************************************************)
\* 1 for type/subtype, 2 for type/*, 3 for */subtype, 4 for */*.
RangeClass(vt) ==
    IF Split(vt.value, 1) # Star
    THEN (IF Split(vt.value, 2) # Star THEN 1 ELSE 2)
    ELSE (IF Split(vt.value, 2) # Star THEN 3 ELSE 4)

\* A client media range without parameters that matches the server tuple st.
PlainRangeFor(st, ct) ==
    /\ Len(ct.value) = 2
    /\ NonQ(ct) = {}
    /\ mediaRangeValueMatch(st, ct)

\* C20: for client media ranges that match the same server type/subtype and
\* carry no parameters, mediaRangeValueCompare orders exact/exact before
\* exact/* before */exact before */*: it is negative when a is in an earlier
\* class than b, positive when a is in a later class, and 0 when both are in
\* the same class with equal q; the order is total and transitive.
C20_MediaRangeClasses ==
    ( /\ op = "mediaRangeValueCompare"
      /\ Len(serverValues[1].value) = 2
      /\ PlainRangeFor(serverValues[1], clientValues[1])
      /\ PlainRangeFor(serverValues[1], clientValues[2]) ) =>
        LET st == serverValues[1]
            at == clientValues[1]
            bt == clientValues[2]
        IN  /\ RangeClass(at) < RangeClass(bt) => result < 0
            /\ RangeClass(at) > RangeClass(bt) => result > 0
            /\ (RangeClass(at) = RangeClass(bt) /\ q(at) = q(bt)) => result = 0
            /\ result <= 0 \/ mediaRangeValueCompare(st, bt, at) <= 0
            /\ \A ct \in {c \in CompareClientTuples : PlainRangeFor(st, c)} :
                  (result <= 0 /\ mediaRangeValueCompare(st, bt, ct) <= 0)
                      => mediaRangeValueCompare(st, at, ct) <= 0

\* type/* is placed before */subtype although */subtype has the higher q.
C20_Witness ==
    /\ op = "mediaRangeValueCompare"
    /\ PlainRangeFor(serverValues[1], clientValues[1])
    /\ PlainRangeFor(serverValues[1], clientValues[2])
    /\ RangeClass(clientValues[1]) = 2
    /\ RangeClass(clientValues[2]) = 3
    /\ q(clientValues[2]) > q(clientValues[1])
    /\ result < 0

\* The number of non-q keys vt shares with the server tuple st.
SharedKeys(st, vt) == Cardinality(NonQ(vt) \cap DOMAIN st.properties)

\* at precedes bt in the order (literal before '*', then more keys shared
\* with st, then higher q).
WildcardBefore(st, at, bt) ==
    LET aStar == IF at.value = Star THEN 1 ELSE 0
        bStar == IF bt.value = Star THEN 1 ELSE 0
    IN  \/ aStar < bStar
        \/ /\ aStar = bStar
           /\ \/ SharedKeys(st, at) > SharedKeys(st, bt)
              \/ /\ SharedKeys(st, at) = SharedKeys(st, bt)
                 /\ q(at) > q(bt)

\* C25: wildcardValueCompare(server, a, b) orders the client candidates
\* lexicographically by (literal before '*', more non-q keys shared with the
\* server first, higher q first): it is negative when a precedes b, positive
\* when b precedes a, and 0 only when both are literal or both '*' with the
\* same number of shared keys and equal q; the comparison is antisymmetric
\* and transitive.
C25_WildcardCompareLexicographic ==
    op = "wildcardValueCompare" =>
        LET st == serverValues[1]
            at == clientValues[1]
            bt == clientValues[2]
        IN  /\ WildcardBefore(st, at, bt) <=> result < 0
            /\ WildcardBefore(st, bt, at) <=> result > 0
            /\ result = 0 =>
                  /\ (at.value = Star) <=> (bt.value = Star)
                  /\ SharedKeys(st, at) = SharedKeys(st, bt)
                  /\ q(at) = q(bt)
            /\ (result < 0) <=> (wildcardValueCompare(st, bt, at) > 0)
            /\ (result = 0) <=> (wildcardValueCompare(st, bt, at) = 0)
            /\ \A ct \in CompareClientTuples :
                  (result <= 0 /\ wildcardValueCompare(st, bt, ct) <= 0)
                      => wildcardValueCompare(st, at, ct) <= 0

\* A literal precedes a '*' that shares more keys with the server and has
\* the higher q.
C25_Witness ==
    /\ op = "wildcardValueCompare"
    /\ clientValues[1].value # Star
    /\ clientValues[2].value = Star
    /\ SharedKeys(serverValues[1], clientValues[2])
          > SharedKeys(serverValues[1], clientValues[1])
    /\ q(clientValues[2]) > q(clientValues[1])
    /\ result < 0

\* C26: mediaRangeValueMatch(server, client) is true if and only if the type
\* components are equal or the client's type is '*' (parameters ignored), and
\* the subtype components are equal or the client's subtype is '*', and
\* parameterMatch(server, client) holds.
C26_MediaRangeMatchIff ==
    op = "mediaRangeValueMatch" =>
        LET st == serverValues[1]
            ct == clientValues[1]
        IN  result <=>
                /\ \/ Split(st.value, 1) = Split(ct.value, 1)
                   \/ Split(ct.value, 1) = Star
                /\ \/ Split(st.value, 2) = Split(ct.value, 2)
                   \/ Split(ct.value, 2) = Star
                /\ parameterMatch(st, ct)

\* The types differ in their parameters only and do not match; the client's
\* type is '*', its subtype the server's.
C26_Witness ==
    /\ op = "mediaRangeValueMatch"
    /\ serverValues[1].value = TextPlain
    /\ clientValues[1].value = StarPlain
    /\ NonQ(serverValues[1]) = {}
    /\ NonQ(clientValues[1]) # {}
    /\ ~result

\* C30: performTypemapNegotiation never returns an entry that has no
\* content-type header or an empty content-type list, whatever the client's
\* accept values are and also when the client sent no accept header; the
\* entry returned is one of the elements of serverTypemap, and the typemap
\* is left as it was.
C30_ReturnedEntryHasContentType ==
    [][ op' = "performTypemapNegotiation" =>
            /\ serverTypemap' = serverTypemap
            /\ result' # Null =>
                  /\ result' \in DOMAIN serverTypemap
                  /\ "content-type" \in DOMAIN serverTypemap[result'].headers
                  /\ serverTypemap[result'].headers["content-type"] # <<>> ]_vars

\* The client sent no accept header; the first entry has no content-type
\* values and the second is returned.
C30_Witness ==
    /\ op = "performTypemapNegotiation"
    /\ "accept" \notin DOMAIN clientHeaderMap
    /\ Len(serverTypemap) >= 2
    /\ EntryTypes(serverTypemap[1]) = <<>>
    /\ result = 2

(***************************************************************************)
(* The negotiation functions called on lists that may share nothing        *)
(***************************************************************************)
AnyClientTuples ==
    { ValueTuple(Gzip, EMPTY_MAP), ValueTuple(Star, [q |-> 0]),
      ValueTuple(TextPlain, EMPTY_MAP), ValueTuple(StarStar, EMPTY_MAP) }

AnyServerTuples ==
    { ValueTuple(Gzip, EMPTY_MAP), ValueTuple(Identity, [q |-> 0]),
      ValueTuple(TextPlain, EMPTY_MAP), ValueTuple(TextHtml, [q |-> 0]) }

InitAny ==
    /\ clientValues \in SeqsUpTo(AnyClientTuples, MaxClient)
    /\ serverValues \in SeqsUpTo(AnyServerTuples, MaxServer)
    /\ whitelist \in {NoWhitelist, Whitelist({})}
    /\ InitNoTypemap
    /\ InitNoString
    /\ InitCalls

NextAny ==
    \/ NegotiationWildcard
    \/ NegotiationMediaRange
    \/ EncodingNegotiation
    \/ TypeNegotiation

SpecAny == InitAny /\ [][NextAny]_vars

\* No client tuple of cvs matches a server tuple of svs with a positive
\* product of their q values.
NoPositiveMatch(cvs, svs, mat) ==
    \A n \in DOMAIN svs : \A j \in DOMAIN cvs :
        matcher(mat, svs[n], cvs[j]) => q(cvs[j]) * q(svs[n]) <= 0

removeSpaces(s) == SelectSeq(s, LAMBDA c : c /= " ")

\* String.prototype.split(sep) for a separator of one character: the pieces
\* between the separators, one more than there are separators.
RECURSIVE split(_, _)
split(s, sep) ==
    IF \A i \in DOMAIN s : s[i] /= sep
    THEN <<s>>
    ELSE LET i == CHOOSE k \in DOMAIN s :
                      s[k] = sep /\ \A j \in 1..(k - 1) : s[j] /= sep
         IN  <<SubSeq(s, 1, i - 1)>> \o split(SubSeq(s, i + 1, Len(s)), sep)

splitHeaderValue(header) == split(removeSpaces(header), ",")

\* The white space String.prototype.trim removes, as far as the strings
\* drawn here can hold it.
WhiteSpaceChars == {" ", "\t", "\n", "\r", "\f"}

MaxHeader == 4

HeaderChars == {"a", " ", "\t", ",", "/", "*"}

InitSplit ==
    /\ str \in SeqsUpTo(HeaderChars, MaxHeader)
    /\ clientValues = <<>>
    /\ serverValues = <<>>
    /\ whitelist = NoWhitelist
    /\ InitNoTypemap
    /\ InitCalls

SplitHeaderValue ==
    /\ result' = splitHeaderValue(str)
    /\ op' = "splitHeaderValue"
    /\ UNCHANGED <<clientValues, serverValues, whitelist>>
    /\ UNCHANGED typemapArgs
    /\ UNCHANGED str

SpecSplit == InitSplit /\ [][SplitHeaderValue]_vars

\* How many characters of s are the character c.
Count(s, c) == Cardinality({i \in DOMAIN s : s[i] = c})

RECURSIVE Concat(_)
Concat(ss) == IF ss = <<>> THEN <<>> ELSE Head(ss) \o Concat(Tail(ss))

\* C24: splitHeaderValue removes all white space from the header and splits
\* it on ',': no returned token holds a white space character (space, tab
\* or other) or a comma, there is one token more than the header has commas,
\* and '/' and '*' never cause a split (each is kept inside a token).
C24_SplitRemovesAllWhitespace ==
    op = "splitHeaderValue" =>
        /\ Len(result) = Count(str, ",") + 1
        /\ \A i \in DOMAIN result : \A k \in DOMAIN result[i] :
              result[i][k] \notin WhiteSpaceChars \cup {","}
        /\ Count(Concat(result), "/") = Count(str, "/")
        /\ Count(Concat(result), "*") = Count(str, "*")

(***************************************************************************)
(* Strings: parseValueTuple                                                *)
(***************************************************************************)
\* The value undefined where a string is expected.  Every character is a
\* string of length one, so this is the image of no string.
UndefinedStr == <<"undefined">>

RECURSIVE trimStart(_)
trimStart(s) ==
    IF s /= <<>> /\ Head(s) \in WhiteSpaceChars THEN trimStart(Tail(s)) ELSE s

RECURSIVE trimEnd(_)
trimEnd(s) ==
    IF s /= <<>> /\ s[Len(s)] \in WhiteSpaceChars
    THEN trimEnd(SubSeq(s, 1, Len(s) - 1))
    ELSE s

trim(s) == trimEnd(trimStart(s))

Digits == <<"0", "1", "2", "3", "4", "5", "6", "7", "8", "9">>

IsDigit(c) == \E d \in DOMAIN Digits : Digits[d] = c

DigitValue(c) == (CHOOSE d \in DOMAIN Digits : Digits[d] = c) - 1

\* The length of the longest prefix of s made of digits.
RECURSIVE digitsLen(_)
digitsLen(s) ==
    IF s /= <<>> /\ IsDigit(Head(s)) THEN 1 + digitsLen(Tail(s)) ELSE 0

\* The number a string of digits denotes.
RECURSIVE naturalOf(_)
naturalOf(s) ==
    IF s = <<>>
    THEN 0
    ELSE 10 * naturalOf(SubSeq(s, 1, Len(s) - 1)) + DigitValue(s[Len(s)])

\* The result of parseFloat on text that is not a number.  No string drawn
\* here holds a sign, so no parsed number is negative.
NaN == -1

\* parseFloat on strings without sign and exponent: leading white space is
\* skipped, the longest prefix of the form digits[.digits] is the number
\* (in units of 1/QOne, three fractional digits), anything else is NaN.
parseFloat(s) ==
    IF s = UndefinedStr
    THEN NaN
    ELSE LET t == trimStart(s)
             n == digitsLen(t)
             rest == SubSeq(t, n + 1, Len(t))
             m == IF rest /= <<>> /\ Head(rest) = "."
                  THEN digitsLen(Tail(rest))
                  ELSE 0
             fraction == SubSeq(SubSeq(rest, 2, 1 + m) \o <<"0", "0", "0">>, 1, 3)
         IN  IF n = 0 /\ m = 0
             THEN NaN
             ELSE naturalOf(SubSeq(t, 1, n)) * QOne + naturalOf(fraction)

\* Map.prototype.set: the key is bound to the value, replacing any binding.
mapSet(map, key, value) ==
    [k \in DOMAIN map \cup {key} |-> IF k = key THEN value ELSE map[k]]

\* The forEach of parseValueTuple over the pieces after the first:
\* kvp = av.split('=', 2), the value of 'q' goes through parseFloat.
RECURSIVE setParams(_, _)
setParams(params, avs) ==
    IF avs = <<>>
    THEN params
    ELSE LET kvp == split(Head(avs), "=")
             value == IF Len(kvp) >= 2 THEN kvp[2] ELSE UndefinedStr
         IN  setParams(mapSet(params, kvp[1],
                              IF kvp[1] = <<"q">> THEN parseFloat(value)
                                                  ELSE value),
                       Tail(avs))

parseValueTuple(v) ==
    LET s == split(v, ";")
    IN  ValueTuple(s[1], setParams(EMPTY_MAP, Tail(s)))

(***************************************************************************)
(* Strings: typemapParse                                                   *)
(***************************************************************************)
UpperCase ==
    <<"A", "B", "C", "D", "E", "F", "G", "H", "I", "J", "K", "L", "M",
      "N", "O", "P", "Q", "R", "S", "T", "U", "V", "W", "X", "Y", "Z">>

LowerCase ==
    <<"a", "b", "c", "d", "e", "f", "g", "h", "i", "j", "k", "l", "m",
      "n", "o", "p", "q", "r", "s", "t", "u", "v", "w", "x", "y", "z">>

toLowerCase(s) ==
    [i \in DOMAIN s |->
        IF \E k \in DOMAIN UpperCase : UpperCase[k] = s[i]
        THEN LowerCase[CHOOSE k \in DOMAIN UpperCase : UpperCase[k] = s[i]]
        ELSE s[i]]

\* String.prototype.indexOf: the 0-based position of the first c, or -1.
indexOf(s, c) ==
    IF \A i \in DOMAIN s : s[i] /= c
    THEN -1
    ELSE (CHOOSE k \in DOMAIN s :
              s[k] = c /\ \A j \in 1..(k - 1) : s[j] /= c) - 1

\* String.prototype.substr with 0-based start: substr(start) and
\* substr(0, length).
substrFrom(s, start) == SubSeq(s, start + 1, Len(s))

substrTo(s, length) == SubSeq(s, 1, length)

\* The state of the parser: types, the entry being read (a sequence of no
\* element when entry is undefined, of one element otherwise) and entryBad.
ParserStart == [types |-> <<>>, entry |-> <<>>, entryBad |-> FALSE]

\* Mutant: a tainted entry is flushed like any other.
maybeFlushEntryIgnoreBad(st) ==
    [types |-> IF /\ st.entry /= <<>>
                  /\ st.entry[1].uri /= UndefinedStr
                  /\ Len(st.entry[1].uri) > 0
               THEN Append(st.types, st.entry[1])
               ELSE st.types,
     entry |-> <<>>,
     entryBad |-> FALSE]

\* Mutant: the bad flag outlives the entry.
maybeFlushEntryKeepBad(st) ==
    [types |-> IF /\ ~st.entryBad
                  /\ st.entry /= <<>>
                  /\ st.entry[1].uri /= UndefinedStr
                  /\ Len(st.entry[1].uri) > 0
               THEN Append(st.types, st.entry[1])
               ELSE st.types,
     entry |-> <<>>,
     entryBad |-> st.entryBad]

\* Mutant: an entry is flushed whatever its uri.
maybeFlushEntryAnyUri(st) ==
    [types |-> IF ~st.entryBad /\ st.entry /= <<>>
               THEN Append(st.types, st.entry[1])
               ELSE st.types,
     entry |-> <<>>,
     entryBad |-> FALSE]

maybeFlushEntry(st) ==
    [types |-> IF /\ ~st.entryBad
                  /\ st.entry /= <<>>
                  /\ st.entry[1].uri /= UndefinedStr
                  /\ Len(st.entry[1].uri) > 0
               THEN Append(st.types, st.entry[1])
               ELSE st.types,
     entry |-> <<>>,
     entryBad |-> FALSE]

\* One turn of the loop over the lines.
typemapLine(st, line) ==
    LET l == trim(line)
        entry == IF st.entry = <<>>
                 THEN TypeMapEntry(UndefinedStr, EMPTY_MAP)
                 ELSE st.entry[1]
        splitIndex == indexOf(l, ":")
        hv == trim(substrFrom(l, splitIndex + 1))
        hn == toLowerCase(trim(substrTo(l, splitIndex)))
        values == splitHeaderValue(hv)
    IN  IF l /= <<>> /\ l[1] = "#"
        THEN st
        ELSE IF Len(l) = 0
        THEN maybeFlushEntry(st)
        ELSE IF splitIndex = -1
        THEN [st EXCEPT !.entry = <<entry>>, !.entryBad = TRUE]
        ELSE IF hn = <<"u", "r", "i">>
        THEN [st EXCEPT !.entry = <<TypeMapEntry(trim(hv), entry.headers)>>]
        ELSE [st EXCEPT !.entry =
                 <<TypeMapEntry(entry.uri,
                       mapSet(entry.headers, hn,
                              [i \in DOMAIN values |->
                                  parseValueTuple(values[i])]))>>]

RECURSIVE typemapLines(_, _)
typemapLines(st, lines) ==
    IF lines = <<>>
    THEN st
    ELSE typemapLines(typemapLine(st, Head(lines)), Tail(lines))

typemapParse(s) ==
    maybeFlushEntry(typemapLines(ParserStart, split(s, "\n"))).types

MaxLines == 4

TypemapLineForms ==
    { <<>>,
      <<" ">>,
      <<"#", "c">>,
      <<"U", "R", "I", ":", "a">>,
      <<"u", "r", "i", ":", " ", "b", " ">>,
      <<"u", "r", "i", ":">>,
      <<"C", " ", ":", " ", "a", ";", "q", "=", "0", ".", "5", ",", " ", "b">>,
      <<"b", "a", "d">> }

\* The text whose lines are the given ones.
RECURSIVE join(_)
join(lines) ==
    IF lines = <<>>
    THEN <<>>
    ELSE IF Len(lines) = 1
    THEN lines[1]
    ELSE lines[1] \o <<"\n">> \o join(Tail(lines))

InitParse ==
    /\ str \in {join(lines) : lines \in SeqsUpTo(TypemapLineForms, MaxLines)}
    /\ clientValues = <<>>
    /\ serverValues = <<>>
    /\ whitelist = NoWhitelist
    /\ InitNoTypemap
    /\ InitCalls

TypemapParse ==
    /\ result' = typemapParse(str)
    /\ op' = "typemapParse"
    /\ UNCHANGED <<clientValues, serverValues, whitelist>>
    /\ UNCHANGED typemapArgs
    /\ UNCHANGED str

SpecParse == InitParse /\ [][TypemapParse]_vars

\* The lines of the text parsed.
Lines == split(str, "\n")

IsComment(line) == LET l == trim(line) IN l /= <<>> /\ l[1] = "#"

IsBlank(line) == trim(line) = <<>>

\* A line that is neither a comment nor blank and holds no ':'.
IsBad(line) == ~IsComment(line) /\ ~IsBlank(line) /\ Count(line, ":") = 0

\* A line 'name: value' (no comment) whose name is the given one.
IsHeader(line) == ~IsComment(line) /\ ~IsBlank(line) /\ Count(line, ":") > 0

HeaderName(line) ==
    LET l == trim(line) IN toLowerCase(trim(substrTo(l, indexOf(l, ":"))))

HeaderValue(line) ==
    LET l == trim(line) IN trim(substrFrom(l, indexOf(l, ":") + 1))

IsUri(line) == IsHeader(line) /\ HeaderName(line) = <<"u", "r", "i">>

\* The groups of lines between blank lines, in order, each as the pair of
\* its first and its last line number.
RECURSIVE GroupsFrom(_, _)
GroupsFrom(ls, i) ==
    IF i > Len(ls)
    THEN <<>>
    ELSE IF IsBlank(ls[i])
    THEN GroupsFrom(ls, i + 1)
    ELSE LET b == CHOOSE k \in i..Len(ls) :
                      /\ \A j \in i..k : ~IsBlank(ls[j])
                      /\ k = Len(ls) \/ IsBlank(ls[k + 1])
         IN  <<<<i, b>>>> \o GroupsFrom(ls, b + 1)

Groups == GroupsFrom(Lines, 1)

GroupLines(g) == SubSeq(Lines, g[1], g[2])

Tainted(g) == \E k \in g[1]..g[2] : IsBad(Lines[k])

\* The uri the lines of a group give: the value of its last URI line.
GroupUri(g) ==
    LET uris == {k \in g[1]..g[2] : IsUri(Lines[k])}
    IN  IF uris = {}
        THEN UndefinedStr
        ELSE HeaderValue(Lines[CHOOSE k \in uris : \A j \in uris : j <= k])

\* C21: typemapParse drops an entry entirely if one of its lines that is
\* neither blank nor a comment has no ':', whatever well-formed header or
\* URI lines stand before or after that line in the same entry; a URI line
\* that no blank line precedes starts no new entry.  The result is the
\* entries of the untainted groups of lines, at most one for each group.
C21_BadLineDropsWholeEntry ==
    op = "typemapParse" =>
        /\ result = Concat([n \in DOMAIN Groups |->
                               IF Tainted(Groups[n])
                               THEN <<>>
                               ELSE typemapParse(join(GroupLines(Groups[n])))])
        /\ \A n \in DOMAIN Groups :
              Len(typemapParse(join(GroupLines(Groups[n])))) <= 1
        /\ Len(result) <= Cardinality({n \in DOMAIN Groups : ~Tainted(Groups[n])})

\* A group has a URI line with a value before its bad line and a
\* well-formed line after it; nothing is returned.
C21_Witness ==
    /\ op = "typemapParse"
    /\ result = <<>>
    /\ \E n \in DOMAIN Groups :
          \E i, j, k \in Groups[n][1]..Groups[n][2] :
              /\ i < j /\ j < k
              /\ IsUri(Lines[i]) /\ HeaderValue(Lines[i]) /= <<>>
              /\ IsBad(Lines[j])
              /\ IsHeader(Lines[k])

\* The uris of the groups that are not tainted and have a uri, in order.
ExpectedUris ==
    LET kept == SelectSeq([n \in DOMAIN Groups |-> Groups[n]],
                          LAMBDA g : /\ ~Tainted(g)
                                     /\ GroupUri(g) /= UndefinedStr
                                     /\ GroupUri(g) /= <<>>)
    IN  [n \in DOMAIN kept |-> GroupUri(kept[n])]

\* C22: every entry typemapParse returns has a non-empty uri: a group of
\* header lines that ends at a blank line or at the end of the input
\* without a URI line, or with an empty URI value, is never in the output,
\* and the entries returned keep the order they have in the input.
C22_ReturnedEntriesHaveUri ==
    op = "typemapParse" =>
        /\ \A i \in DOMAIN result :
              result[i].uri /= UndefinedStr /\ Len(result[i].uri) > 0
        /\ [i \in DOMAIN result |-> result[i].uri] = ExpectedUris

\* A group of well-formed lines has no uri, another one has: one entry.
C22_Witness ==
    /\ op = "typemapParse"
    /\ Len(result) = 1
    /\ \E n \in DOMAIN Groups :
          /\ ~Tainted(Groups[n])
          /\ \E k \in Groups[n][1]..Groups[n][2] : IsHeader(Lines[k])
          /\ GroupUri(Groups[n]) \in {UndefinedStr, <<>>}

\* The lines without those of the group g.
WithoutGroup(g) == SubSeq(Lines, 1, g[1] - 1) \o SubSeq(Lines, g[2] + 1, Len(Lines))

\* C27: in typemapParse a malformed line taints only the entry that holds
\* it: once a blank line ends that entry the entry and the bad flag are
\* reset, so what follows is parsed as if the lines of the tainted entry
\* were absent, also when the following entry is the last one and ends at
\* the end of the input without a blank line.
C27_TaintEndsWithEntry ==
    op = "typemapParse" =>
        \A n \in DOMAIN Groups :
            Tainted(Groups[n]) => result = typemapParse(join(WithoutGroup(Groups[n])))

\* A tainted entry is followed by an entry with a uri that ends the input
\* and is returned.
C27_Witness ==
    /\ op = "typemapParse"
    /\ Len(Groups) >= 2
    /\ Tainted(Groups[1])
    /\ ~Tainted(Groups[Len(Groups)])
    /\ Groups[Len(Groups)][2] = Len(Lines)
    /\ Len(result) = 1
    /\ result[1].uri = GroupUri(Groups[Len(Groups)])

====
